---- MODULE Spec2Model ----
(***************************************************************************)
(* Model of the quotation generator (src/app.py, src/downlod.py).          *)
(*                                                                         *)
(* Text values (names, form fields, filters) are sequences of one-         *)
(* character strings, so that sanitising, padding, lower-casing, suffix    *)
(* and substring tests are computed character by character as the code     *)
(* computes them.                                                          *)
(***************************************************************************)
EXTENDS Integers, Sequences, FiniteSets, TLC

----------------------------------------------------------------------------
(* Bounds of the model *)

\* random draws explored: 1..MaxDraw and the largest draw RandMax
MaxDraw == 1
\* rows of a submitted form (besides the one over-long form)
MaxRows == 2
\* POST submissions explored in one behaviour
MaxSubmits == 2
\* files named <quotation_no>.pdf that an output directory may already hold
\* cover the first MaxPre + 1 candidate ranges
MaxPre == 1

(* Program constants *)

\* random.randint(1, 9999)
RandMax == 9999
\* counter * 10000
RangeStep == 10000
\* zfill(3)
PadWidth == 3
\* max_rows_per_page = 6
max_rows_per_page == 6
\* max_rows_per_page * 10
PagesFactor == 10

----------------------------------------------------------------------------
(* Text *)

UpperChars == <<"A","B","C","D","E","F","G","H","I","J","K","L","M",
                "N","O","P","Q","R","S","T","U","V","W","X","Y","Z">>
LowerChars == <<"a","b","c","d","e","f","g","h","i","j","k","l","m",
                "n","o","p","q","r","s","t","u","v","w","x","y","z">>
DigitChars == <<"0","1","2","3","4","5","6","7","8","9">>

Range(s) == {s[i] : i \in DOMAIN s}

UpperSet == Range(UpperChars)
LowerOfUpper == [c \in UpperSet |->
                    LowerChars[CHOOSE i \in DOMAIN UpperChars : UpperChars[i] = c]]

\* str.lower() on one character
LowerChar(c) == IF c \in UpperSet THEN LowerOfUpper[c] ELSE c

\* str.lower()
Lower(s) == [i \in DOMAIN s |-> LowerChar(s[i])]

\* the character class [A-Za-z0-9\-]
SafeChars == Range(UpperChars) \cup Range(LowerChars) \cup Range(DigitChars) \cup {"-"}
IsSafeChar(c) == c \in SafeChars

\* re.sub(r'[^A-Za-z0-9\-]', '_', s)
Sanitize(s) == [i \in DOMAIN s |-> IF IsSafeChar(s[i]) THEN s[i] ELSE "_"]

\* Python's  sub in s
Contains(s, sub) ==
    \E i \in 0..(Len(s) - Len(sub)) : SubSeq(s, i + 1, i + Len(sub)) = sub

\* str.endswith
EndsWith(s, suffix) ==
    /\ Len(s) >= Len(suffix)
    /\ SubSeq(s, Len(s) - Len(suffix) + 1, Len(s)) = suffix

\* str(n) for n >= 0
RECURSIVE Str(_)
Str(n) == IF n < 10 THEN <<DigitChars[n + 1]>>
          ELSE Str(n \div 10) \o <<DigitChars[(n % 10) + 1]>>

\* str.zfill(width) of an unsigned numeral
Zfill(s, width) ==
    IF Len(s) >= width THEN s ELSE [i \in 1..(width - Len(s)) |-> "0"] \o s

PdfExt == <<".", "p", "d", "f">>

----------------------------------------------------------------------------
(* generate_quotation_number *)

\* the draws of random.randint(1, 9999) that are explored
Draws == (1..MaxDraw) \cup {RandMax}

\* f"{prefix}{random_num}" with random_num = str(n).zfill(3)
QuotationNo(n) == <<"Q", "-">> \o Zfill(Str(n), PadWidth)

\* the number drawn after k redraws: randint(1, 9999) at first,
\* randint(1, 9999) + counter * 10000 in the loop (counter = k there)
CandidateNoOffset(r, k) == r
Candidate(r, k) == r + k * RangeStep

\* os.path.exists(os.path.join(output_dir, f"{quotation_no}.pdf")),
\* names being the entries of output_dir
ProbeExists(names, q) == (q \o PdfExt) \in names

\* the quotation numbers generate_quotation_number can return on a directory
\* holding `names`, having redrawn k times so far
RECURSIVE GenFrom(_, _)
GenFrom(names, k) ==
    LET cands == {QuotationNo(Candidate(r, k)) : r \in Draws}
        free  == {q \in cands : ~ProbeExists(names, q)}
    IN  IF free = cands THEN free ELSE free \cup GenFrom(names, k + 1)

generate_quotation_number(names) == GenFrom(names, 0)

----------------------------------------------------------------------------
(* float() of a form field *)

\* float(s) for the numerals the forms use: an optional sign and decimal
\* digits. ok = FALSE stands for ValueError (blank or non-numeric text).
RECURSIVE DigitsValue(_)
DigitsValue(s) ==
    IF s = <<>> THEN 0
    ELSE 10 * DigitsValue(SubSeq(s, 1, Len(s) - 1))
            + ((CHOOSE i \in DOMAIN DigitChars : DigitChars[i] = s[Len(s)]) - 1)

DigitSet == Range(DigitChars)
IsDigits(s) == s # <<>> /\ \A i \in DOMAIN s : s[i] \in DigitSet

ParseFloat(s) ==
    IF IsDigits(s) THEN [ok |-> TRUE, val |-> DigitsValue(s)]
    ELSE IF s # <<>> /\ s[1] = "-" /\ IsDigits(Tail(s))
         THEN [ok |-> TRUE, val |-> 0 - DigitsValue(Tail(s))]
    ELSE IF s # <<>> /\ s[1] = "+" /\ IsDigits(Tail(s))
         THEN [ok |-> TRUE, val |-> DigitsValue(Tail(s))]
    ELSE [ok |-> FALSE, val |-> 0]

\* Python truthiness of a float: nonzero
Truthy(x) == x # 0

----------------------------------------------------------------------------
(* The storage tree and the last request served *)

VARIABLES
    rootExists,   \* app.config['QUOTATIONS_DIR'] exists
    rootFiles,    \* names of the plain files directly under the storage root
    dirs,         \* names of the immediate subdirectories of the storage root
    files,        \* <<directory, file name>> -> content of the file
    nsub,         \* submissions handled so far
    last          \* the last request and the response to it

VARIABLES genPc, genDir, genQ, genCounter

vars == <<rootExists, rootFiles, dirs, files, nsub, last, genPc, genDir, genQ, genCounter>>
fsVars == <<rootExists, rootFiles, dirs, files>>
genVars == <<genPc, genDir, genQ, genCounter>>

EmptyFiles == [p \in {} |-> 0]

\* a set as a list, in a fixed but unspecified order (the order of os.listdir)
RECURSIVE ListOf(_)
ListOf(S) ==
    IF S = {} THEN <<>>
    ELSE LET x == CHOOSE y \in S : TRUE IN <<x>> \o ListOf(S \ {x})

\* os.listdir of a subdirectory of the storage root
FilesIn(fs, d) == {p[2] : p \in {q \in DOMAIN fs : q[1] = d}}

----------------------------------------------------------------------------
(* get_quotation_files *)

S_quotations == <<"q","u","o","t","a","t","i","o","n","s">>

\* line 80: not search_rep or search_rep.lower() in d.lower()
DirMatchesCaseSensitive(search_rep, d) ==
    search_rep = <<>> \/ Contains(d, search_rep)
DirMatches(search_rep, d) ==
    search_rep = <<>> \/ Contains(Lower(d), Lower(search_rep))

\* line 98: f.endswith('.pdf') and search_quotation_no.lower() in f.lower()
FileMatches(search_quotation_no, f) ==
    EndsWith(f, PdfExt) /\ Contains(Lower(f), Lower(search_quotation_no))

\* lines 77-81: the subdirectories of the storage root that match search_rep;
\* os.listdir(base_dir) lists plain files too, os.path.isdir drops them
MatchingDirs(search_rep, rf, ds) ==
    {d \in ds \cup rf : d \in ds /\ DirMatches(search_rep, d)}

\* lines 95-106: the result entries of one directory
DirResults(search_quotation_no, fs, d) ==
    LET fnames == ListOf({f \in FilesIn(fs, d) : FileMatches(search_quotation_no, f)})
    IN  [i \in DOMAIN fnames |->
            [file |-> fnames[i], dir |-> d, url |-> <<S_quotations, d, fnames[i]>>]]

RECURSIVE AllResults(_, _, _)
AllResults(search_quotation_no, fs, dlist) ==
    IF dlist = <<>> THEN <<>>
    ELSE DirResults(search_quotation_no, fs, Head(dlist))
            \o AllResults(search_quotation_no, fs, Tail(dlist))

\* lines 84-89 with the first check skipped when a filter is given
NoDirsErrorOnlyUnfiltered(search_rep, matching) == matching = {} /\ search_rep = <<>>
NoDirsError(search_rep, matching) == matching = {}

\* lines 68-119. The error message is kept as its kind and the filter
\* values it quotes (lines 85-87 and 110-115).
get_quotation_files(search_quotation_no, search_rep, rx, rf, ds, fs) ==
    IF ~rx
    THEN [error |-> [kind |-> "no_root", rep |-> <<>>, qno |-> <<>>], results |-> <<>>]
    ELSE LET matching == MatchingDirs(search_rep, rf, ds)
             results  == AllResults(search_quotation_no, fs, ListOf(matching))
         IN  IF NoDirsError(search_rep, matching)
             THEN [error |-> [kind |-> "no_dirs", rep |-> search_rep, qno |-> <<>>],
                   results |-> <<>>]
             ELSE IF results = <<>>
             THEN [error |-> [kind |-> "no_files", rep |-> search_rep,
                              qno |-> search_quotation_no],
                   results |-> <<>>]
             ELSE [error |-> [kind |-> "none", rep |-> <<>>, qno |-> <<>>],
                   results |-> results]

----------------------------------------------------------------------------
(* Inputs of a submission *)

\* one row of the form: the texts of quantity[], rate[], amount[] and vat[]
RowValid    == [quantity |-> <<"1">>, rate |-> <<"2">>, amount |-> <<"2">>, vat |-> <<>>]
RowZeroQty  == [quantity |-> <<"0">>, rate |-> <<"2">>, amount |-> <<"2">>, vat |-> <<"1","6">>]
RowNegative == [quantity |-> <<"-","1">>, rate |-> <<"2">>, amount |-> <<"2">>, vat |-> <<"0">>]
RowBlank    == [quantity |-> <<>>, rate |-> <<"2">>, amount |-> <<"2">>, vat |-> <<"x">>]
RowKinds    == {RowValid, RowZeroQty, RowNegative, RowBlank}

\* request.form.getlist(...) of the four parallel arrays
FormOf(rows) ==
    [quantity |-> [i \in DOMAIN rows |-> rows[i].quantity],
     rate     |-> [i \in DOMAIN rows |-> rows[i].rate],
     amount   |-> [i \in DOMAIN rows |-> rows[i].amount],
     vat      |-> [i \in DOMAIN rows |-> rows[i].vat]]

DropLast(s) == SubSeq(s, 1, Len(s) - 1)

WellFormedForms ==
    {FormOf(rows) : rows \in UNION {[1..n -> RowKinds] : n \in 0..MaxRows}}

\* forms whose arrays differ in length: one rate[] or one vat[] entry missing
MismatchedForms ==
    UNION {LET f == FormOf([i \in 1..n |-> RowValid])
           IN  {[f EXCEPT !.rate = DropLast(@)], [f EXCEPT !.vat = DropLast(@)]}
           : n \in 1..MaxRows}

\* one row more than max_rows_per_page * 10
LongForm == FormOf([i \in 1..(max_rows_per_page * PagesFactor + 1) |-> RowValid])

Forms == WellFormedForms \cup MismatchedForms \cup {LongForm}

Reps    == {<<>>, <<"A","b">>, <<"a"," ","b">>}
Clients == {<<>>, <<"c">>, <<"D","!">>}

\* what the environment lets the composing stage do (lines 332-340):
\* the template is missing, the directory is not writable, composing fails
\* before the output file is opened, fails while writing it, or succeeds
Stages == {"no_template", "not_writable", "fail_early", "fail_write", "ok"}

----------------------------------------------------------------------------
(* index: a submission (POST without search fields) *)

Err(kind, row) == [kind |-> kind, row |-> row]

\* line 283
LengthsEqual(form) ==
    /\ Len(form.quantity) = Len(form.rate)
    /\ Len(form.rate) = Len(form.amount)
    /\ Len(form.amount) = Len(form.vat)

\* line 302: if quantity and rate and amount
RowAccepted(quantity, rate, amount) ==
    Truthy(quantity) /\ Truthy(rate) /\ Truthy(amount)

\* lines 291-312, rows i..len(quantities); acc carries quote_items, the
\* errors, subtotal and tax (tax in hundredths: amount * vat)
RECURSIVE ProcessRows(_, _, _)
ProcessRows(form, i, acc) ==
    IF i > Len(form.quantity) THEN acc
    ELSE LET quantity == ParseFloat(form.quantity[i])
             rate     == ParseFloat(form.rate[i])
             amount   == ParseFloat(form.amount[i])
             vat      == IF form.vat[i] # <<>> THEN ParseFloat(form.vat[i])
                         ELSE [ok |-> TRUE, val |-> 0]
             rowError == [acc EXCEPT !.errors = Append(@, Err("row", i))]
         IN  IF ~(quantity.ok /\ rate.ok /\ amount.ok /\ vat.ok)
             THEN ProcessRows(form, i + 1, rowError)
             ELSE IF RowAccepted(quantity.val, rate.val, amount.val)
             THEN ProcessRows(form, i + 1,
                    [quote_items |-> Append(acc.quote_items,
                                        [quantity |-> quantity.val, rate |-> rate.val,
                                         amount |-> amount.val, vat |-> vat.val]),
                     errors   |-> acc.errors,
                     subtotal |-> acc.subtotal + amount.val,
                     tax100   |-> acc.tax100 + amount.val * vat.val])
             ELSE ProcessRows(form, i + 1, rowError)

\* lines 280-312 with the rows of a mismatched form still processed
ValidateItemsProcessesMismatched(form) ==
    LET none == [quote_items |-> <<>>, errors |-> <<>>, subtotal |-> 0, tax100 |-> 0]
        n    == CHOOSE k \in 0..Len(form.quantity) :
                    /\ k <= Len(form.rate) /\ k <= Len(form.amount) /\ k <= Len(form.vat)
                    /\ \A m \in 0..Len(form.quantity) :
                          (m <= Len(form.rate) /\ m <= Len(form.amount)
                              /\ m <= Len(form.vat)) => m <= k
        cut  == [quantity |-> SubSeq(form.quantity, 1, n), rate |-> SubSeq(form.rate, 1, n),
                 amount |-> SubSeq(form.amount, 1, n), vat |-> SubSeq(form.vat, 1, n)]
    IN  IF ~LengthsEqual(form)
        THEN ProcessRows(cut, 1, [none EXCEPT !.errors = <<Err("invalid_items", 0)>>])
        ELSE IF Len(form.quantity) > max_rows_per_page * PagesFactor
        THEN [none EXCEPT !.errors = <<Err("too_many", 0)>>]
        ELSE ProcessRows(form, 1, none)

\* lines 280-312
ValidateItems(form) ==
    LET none == [quote_items |-> <<>>, errors |-> <<>>, subtotal |-> 0, tax100 |-> 0]
    IN  IF ~LengthsEqual(form)
        THEN [none EXCEPT !.errors = <<Err("invalid_items", 0)>>]
        ELSE IF Len(form.quantity) > max_rows_per_page * PagesFactor
        THEN [none EXCEPT !.errors = <<Err("too_many", 0)>>]
        ELSE ProcessRows(form, 1, none)

\* lines 318-323
RequiredErrors(client_name, rep, quote_items) ==
    (IF client_name = <<>> THEN <<Err("client_required", 0)>> ELSE <<>>)
    \o (IF rep = <<>> THEN <<Err("rep_required", 0)>> ELSE <<>>)
    \o (IF quote_items = <<>> THEN <<Err("no_items", 0)>> ELSE <<>>)

\* line 326: if not errors
ComposeAllowedDespiteRowErrors(errors) ==
    \A i \in DOMAIN errors : errors[i].kind = "row"
ComposeAllowed(errors) == errors = <<>>

\* what os.path.exists / isdir say of output_dir = join(QUOTATIONS_DIR, safe_rep)
OutputDirKind(safe_rep, rx, rf, ds) ==
    IF ~rx THEN "none"
    ELSE IF safe_rep = <<>> \/ safe_rep \in ds THEN "dir"
    ELSE IF safe_rep \in rf THEN "file"
    ELSE "none"

\* the entries of output_dir
OutputDirNames(safe_rep, rx, rf, ds, fs) ==
    IF OutputDirKind(safe_rep, rx, rf, ds) # "dir" THEN {}
    ELSE IF safe_rep = <<>> THEN rf \cup ds
    ELSE FilesIn(fs, safe_rep)

\* line 328: f"{quotation_no}_{safe_client_name}.pdf"
OutputName(quotation_no, safe_client_name) ==
    quotation_no \o <<"_">> \o safe_client_name \o PdfExt

NoData ==
    [quotation_no |-> <<>>, client_name |-> <<>>, rep |-> <<>>, quote_items |-> <<>>,
     subtotal |-> 0, tax100 |-> 0, total100 |-> 0]

\* lines 199-200: open(output_file, 'wb') creates or truncates the file
WriteFile(fs, path, content) ==
    [p \in DOMAIN fs \cup {path} |-> IF p = path THEN content ELSE fs[p]]

\* lines 326-340: what the composing stage does, given the errors so far,
\* whether output_dir is a directory, and what the environment allows
ComposeOutcome(errors, isDir, stage) ==
    IF ~ComposeAllowed(errors) THEN "invalid"
    ELSE IF stage \in {"no_template", "not_writable"} THEN stage
    ELSE IF ~isDir THEN "fail_early"
    ELSE stage

ComposeErrors(outcome) ==
    CASE outcome = "no_template"  -> <<Err("no_template", 0)>>
      [] outcome = "not_writable" -> <<Err("not_writable", 0)>>
      [] outcome \in {"fail_early", "fail_write"} -> <<Err("pdf_failed", 0)>>
      [] OTHER -> <<>>

\* lines 252-357. The date field and the read-only listing shown with the
\* page are not recorded. mkdirOk: os.makedirs succeeds; stage: see Stages.
Submit ==
    /\ last.op = "none"
    /\ nsub < MaxSubmits
    /\ nsub' = nsub + 1
    /\ \E form \in Forms, rep \in Reps :
        LET v        == ValidateItems(form)
            safe_rep == Sanitize(rep)
            absent   == OutputDirKind(safe_rep, rootExists, rootFiles, dirs) = "none"
        IN  \E mkdirOk \in (IF absent THEN BOOLEAN ELSE {TRUE}) :
            LET made  == absent /\ mkdirOk
                rx1   == rootExists \/ made
                ds1   == IF made /\ safe_rep # <<>> THEN dirs \cup {safe_rep} ELSE dirs
                errs0 == IF absent /\ ~mkdirOk THEN <<Err("mkdir", 0)>> ELSE <<>>
                names == OutputDirNames(safe_rep, rx1, rootFiles, ds1, files)
                isDir == OutputDirKind(safe_rep, rx1, rootFiles, ds1) = "dir"
            IN  \E quotation_no \in generate_quotation_number(names),
                   client_name \in Clients :
                LET safe_client_name == Sanitize(client_name)
                    errs1 == errs0 \o v.errors
                                \o RequiredErrors(client_name, rep, v.quote_items)
                    data  == [quotation_no |-> quotation_no,
                              client_name |-> client_name,
                              rep |-> rep, quote_items |-> v.quote_items,
                              subtotal |-> v.subtotal, tax100 |-> v.tax100,
                              total100 |-> 100 * v.subtotal + v.tax100]
                    path  == <<safe_rep, OutputName(quotation_no, safe_client_name)>>
                IN  \E stage \in (IF ComposeAllowed(errs1) THEN Stages ELSE {"ok"}) :
                    LET outcome == ComposeOutcome(errs1, isDir, stage)
                    IN  /\ rootExists' = rx1
                        /\ dirs' = ds1
                        /\ files' =
                            CASE outcome = "ok" ->
                                   WriteFile(files, path, [complete |-> TRUE, data |-> data])
                              [] outcome = "fail_write" ->
                                   WriteFile(files, path, [complete |-> FALSE, data |-> NoData])
                              [] OTHER -> files
                        /\ last' = [op |-> "submit", form |-> form,
                                    errors |-> errs1 \o ComposeErrors(outcome),
                                    quotation_data |-> data,
                                    success |-> outcome = "ok",
                                    wrote |-> outcome \in {"ok", "fail_write"},
                                    output |-> path]
    /\ UNCHANGED <<rootFiles, genVars>>

----------------------------------------------------------------------------
(* index: a search (GET, or POST with a search field) *)

RepFilters == Reps \cup {<<"a">>, <<"A","B">>, <<"z">>}
QnoFilters == {<<>>, <<"q","-","0">>, <<"_","C">>, <<"9">>}

\* lines 233-249
Search ==
    /\ last.op = "none"
    /\ \E search_quotation_no \in QnoFilters, search_rep \in RepFilters :
          last' = [op |-> "search",
                   search_quotation_no |-> search_quotation_no,
                   search_rep |-> search_rep,
                   found |-> get_quotation_files(search_quotation_no, search_rep,
                                                 rootExists, rootFiles, dirs, files)]
    /\ UNCHANGED <<fsVars, nsub, genVars>>

----------------------------------------------------------------------------
(* download_file *)

S_app    == <<"a","p","p">>
S_app_py == <<"a","p","p",".","p","y">>
S_etc    == <<"e","t","c">>
S_passwd == <<"p","a","s","s","w","d">>
S_none   == <<"z","z">>
DotDot   == <<".", ".">>

\* app.config['QUOTATIONS_DIR'] = join(dirname(__file__), 'quotations'),
\* as the segments of an absolute path
RootPath == <<S_app, S_quotations>>

IsPrefix(pre, p) == Len(p) >= Len(pre) /\ SubSeq(p, 1, Len(pre)) = pre

\* what the file system holds at a normalised absolute path: the application
\* directory with app.py, /etc/passwd, and the storage tree
NodeKind(p, rx, rf, ds, fs) ==
    IF p \in {<<>>, <<S_app>>, <<S_etc>>} THEN "dir"
    ELSE IF p \in {<<S_app, S_app_py>>, <<S_etc, S_passwd>>} THEN "file"
    ELSE IF ~(rx /\ IsPrefix(RootPath, p)) THEN "none"
    ELSE LET rest == SubSeq(p, Len(RootPath) + 1, Len(p))
         IN  IF rest = <<>> THEN "dir"
             ELSE IF Len(rest) = 1
             THEN (IF rest[1] \in ds THEN "dir"
                   ELSE IF rest[1] \in rf THEN "file" ELSE "none")
             ELSE IF Len(rest) = 2 /\ <<rest[1], rest[2]>> \in DOMAIN fs THEN "file"
             ELSE "none"

\* path resolution by the operating system, one segment at a time: every
\* prefix must be an existing directory, `..` steps to the parent
RECURSIVE Walk(_, _, _, _, _, _)
Walk(cur, segs, rx, rf, ds, fs) ==
    IF segs = <<>> THEN [ok |-> TRUE, path |-> cur]
    ELSE IF NodeKind(cur, rx, rf, ds, fs) # "dir" THEN [ok |-> FALSE, path |-> cur]
    ELSE LET seg  == Head(segs)
             next == IF seg = DotDot
                     THEN (IF cur = <<>> THEN cur ELSE DropLast(cur))
                     ELSE Append(cur, seg)
         IN  IF NodeKind(next, rx, rf, ds, fs) = "none"
             THEN [ok |-> FALSE, path |-> next]
             ELSE Walk(next, Tail(segs), rx, rf, ds, fs)

\* line 12: os.path.join(QUOTATIONS_DIR, file_path); an absolute file_path
\* discards the storage root
JoinRoot(file) == IF file.absolute THEN file.segs ELSE RootPath \o file.segs

\* the values of the `file` query parameter that are explored
NoFile == [given |-> FALSE, absolute |-> FALSE, segs |-> <<>>]
Rel(segs) == [given |-> TRUE, absolute |-> FALSE, segs |-> segs]
FileParams ==
    {NoFile, Rel(<<>>),
     Rel(<<DotDot, S_app_py>>),
     Rel(<<DotDot, DotDot, S_etc, S_passwd>>),
     Rel(<<S_none>>),
     Rel(<<S_none, DotDot, DotDot, S_app_py>>),
     [given |-> TRUE, absolute |-> TRUE, segs |-> <<S_etc, S_passwd>>]}
        \cup {Rel(<<p[1], p[2]>>) : p \in DOMAIN files}
        \cup {Rel(<<d>>) : d \in dirs}
        \cup {Rel(<<d, DotDot, DotDot, S_app_py>>) : d \in dirs}

\* lines 7-16; 500 stands for send_file raising on a directory.
\* `request` is read as flask.request, the name app.py imports: downlod.py
\* itself does not import it, so run unmodified line 8 raises NameError and
\* every request ends in an error response.
download_file(file, rx, rf, ds, fs) ==
    IF ~file.given \/ (~file.absolute /\ file.segs = <<>>)
    THEN [status |-> 400, served |-> <<>>]
    ELSE LET r == Walk(<<>>, JoinRoot(file), rx, rf, ds, fs)
         IN  IF ~r.ok THEN [status |-> 404, served |-> <<>>]
             ELSE IF NodeKind(r.path, rx, rf, ds, fs) = "dir"
             THEN [status |-> 500, served |-> <<>>]
             ELSE [status |-> 200, served |-> r.path]

Download ==
    /\ last.op = "none"
    /\ \E file \in FileParams :
          last' = [op |-> "download", file |-> file,
                   response |-> download_file(file, rootExists, rootFiles, dirs, files)]
    /\ UNCHANGED <<fsVars, nsub, genVars>>

----------------------------------------------------------------------------
(* The application *)

S_note == <<"n","o","t","e">>
S_Ab   == <<"A","b">>
S_memo == <<"m",".","t","x","t">>

\* the storage tree when the application starts: absent (a fresh checkout),
\* or left by an earlier deployment with a plain file in the root and a
\* non-PDF file in a representative's directory
InitTrees ==
    {[rx |-> FALSE, rf |-> {}, ds |-> {}, fs |-> EmptyFiles],
     [rx |-> TRUE, rf |-> {S_note}, ds |-> {S_Ab},
      fs |-> [p \in {<<S_Ab, S_memo>>} |-> [complete |-> TRUE, data |-> NoData]]]}

GenIdle ==
    /\ genPc = "idle"
    /\ genDir = {}
    /\ genQ = <<>>
    /\ genCounter = 0

Init ==
    /\ \E t \in InitTrees :
          /\ rootExists = t.rx
          /\ rootFiles = t.rf
          /\ dirs = t.ds
          /\ files = t.fs
    /\ nsub = 0
    /\ last = [op |-> "none"]
    /\ GenIdle

\* lines 354 and 360, downlod.py line 16: the response is returned and the
\* request's data is dropped; requests are served one at a time
Finish ==
    /\ last.op # "none"
    /\ last' = [op |-> "none"]
    /\ UNCHANGED <<fsVars, nsub, genVars>>

Next == Submit \/ Search \/ Download \/ Finish

Spec == Init /\ [][Next]_vars

\* the first submission after the application starts
SubmitFirst == nsub = 0 /\ Submit

NextFirst == SubmitFirst \/ Finish

SpecFirst == Init /\ [][NextFirst]_vars

----------------------------------------------------------------------------
(* get_quotation_files on the storage trees that submissions can build *)

TreeDirs == {Sanitize(r) : r \in Reps \ {<<>>}}
TreeFileNames ==
    {OutputName(QuotationNo(r), Sanitize(<<"c">>)) : r \in Draws} \cup {S_memo}

SearchInit ==
    /\ rootExists \in BOOLEAN
    /\ rootFiles \in SUBSET {S_note}
    /\ dirs \in SUBSET TreeDirs
    /\ \E P \in SUBSET (dirs \X TreeFileNames) :
          files = [p \in P |-> [complete |-> TRUE, data |-> NoData]]
    /\ rootExists \/ (rootFiles = {} /\ dirs = {} /\ files = EmptyFiles)
    /\ nsub = 0
    /\ last = [op |-> "none"]
    /\ GenIdle

NextSearch == Search \/ Finish

SpecSearch == SearchInit /\ [][NextSearch]_vars

----------------------------------------------------------------------------
(* generate_quotation_number, one draw at a time *)

\* entries an output directory may hold when the generator is called: files
\* named like stored quotations and files named <quotation_no>.pdf
GenDirNames ==
    {QuotationNo(Candidate(r, k)) \o PdfExt : r \in Draws, k \in 0..MaxPre}
        \cup {QuotationNo(1) \o <<"_", "c">> \o PdfExt}

GenInit ==
    /\ genPc = "idle"
    /\ genDir \in SUBSET GenDirNames
    /\ genQ = <<>>
    /\ genCounter = 0
    /\ rootExists = FALSE
    /\ rootFiles = {}
    /\ dirs = {}
    /\ files = EmptyFiles
    /\ nsub = 0
    /\ last = [op |-> "none"]

\* lines 43-46: first draw, counter = 1
GenCall ==
    /\ genPc = "idle"
    /\ \E r \in Draws : genQ' = QuotationNo(Candidate(r, 0))
    /\ genCounter' = 1
    /\ genPc' = "loop"
    /\ UNCHANGED <<genDir, fsVars, nsub, last>>

\* lines 49-52: the candidate exists, redraw and increment the counter
GenRedraw ==
    /\ genPc = "loop"
    /\ ProbeExists(genDir, genQ)
    /\ \E r \in Draws : genQ' = QuotationNo(Candidate(r, genCounter))
    /\ genCounter' = genCounter + 1
    /\ UNCHANGED <<genPc, genDir, fsVars, nsub, last>>

\* line 54: the candidate does not exist, return it
GenReturn ==
    /\ genPc = "loop"
    /\ ~ProbeExists(genDir, genQ)
    /\ genPc' = "done"
    /\ UNCHANGED <<genDir, genQ, genCounter, fsVars, nsub, last>>

GenNext == GenCall \/ GenRedraw \/ GenReturn

SpecGen == GenInit /\ [][GenNext]_vars

----------------------------------------------------------------------------
(* Claims about submissions *)

\* the quotation number a stored file name carries: the text before the
\* first underscore
StoredQuotationNo(f) ==
    IF \E i \in DOMAIN f : f[i] = "_"
    THEN SubSeq(f, 1, (CHOOSE i \in DOMAIN f :
                          f[i] = "_" /\ \A j \in 1..(i - 1) : f[j] # "_") - 1)
    ELSE f

\* C1: no two PDF files stored in one representative's directory carry the
\* same quotation number
C1_UniqueQuotationNo ==
    \A p \in DOMAIN files, q \in DOMAIN files :
        (p # q /\ p[1] = q[1] /\ EndsWith(p[2], PdfExt) /\ EndsWith(q[2], PdfExt))
            => StoredQuotationNo(p[2]) # StoredQuotationNo(q[2])

Submitted == last.op = "submit"

NamesGiven ==
    /\ last.quotation_data.client_name # <<>>
    /\ last.quotation_data.rep # <<>>

ArraysAligned ==
    /\ Len(last.form.quantity) = Len(last.form.rate)
    /\ Len(last.form.quantity) = Len(last.form.amount)
    /\ Len(last.form.quantity) = Len(last.form.vat)

Blank(t) == t = <<>>

\* row i of the submitted form reads as numbers, with these signs
RowReads(i) ==
    /\ ParseFloat(last.form.quantity[i]).ok
    /\ ParseFloat(last.form.rate[i]).ok
    /\ ParseFloat(last.form.amount[i]).ok
    /\ Blank(last.form.vat[i]) \/ ParseFloat(last.form.vat[i]).ok

ZeroQuantityRow(i) ==
    /\ RowReads(i)
    /\ ParseFloat(last.form.quantity[i]).val = 0
    /\ ParseFloat(last.form.rate[i]).val > 0
    /\ ParseFloat(last.form.amount[i]).val > 0

FullyValidRow(i) ==
    /\ RowReads(i)
    /\ ParseFloat(last.form.quantity[i]).val > 0
    /\ ParseFloat(last.form.rate[i]).val > 0
    /\ ParseFloat(last.form.amount[i]).val > 0

\* a submission with both names given, a zero-quantity row and another
\* fully valid row
ZeroRowCase ==
    /\ Submitted /\ NamesGiven /\ ArraysAligned
    /\ Len(last.form.quantity) <= max_rows_per_page * PagesFactor
    /\ \E i, j \in DOMAIN last.form.quantity :
          i # j /\ ZeroQuantityRow(i) /\ FullyValidRow(j)

ZeroRowsRejected ==
    /\ \A i \in DOMAIN last.form.quantity :
          ZeroQuantityRow(i) =>
              \E e \in DOMAIN last.errors : last.errors[e] = Err("row", i)
    /\ \A k \in DOMAIN last.quotation_data.quote_items :
          last.quotation_data.quote_items[k].quantity # 0

MismatchCase == Submitted /\ NamesGiven /\ ~ArraysAligned

MkdirErrors == IF last.errors # <<>> /\ last.errors[1].kind = "mkdir" THEN 1 ELSE 0

\* C3 as stated: exactly one error, no items, nothing persisted
C3_ExactlyOneError ==
    MismatchCase => /\ Len(last.errors) = 1
                    /\ last.quotation_data.quote_items = <<>>
                    /\ ~last.wrote

\* C3 amended: the aggregate item-data error once and no row-level error,
\* followed by the missing-items error (after the directory-creation error,
\* if creating the directory failed); no items, nothing persisted
C3_MismatchErrors ==
    MismatchCase =>
        /\ SubSeq(last.errors, MkdirErrors + 1, Len(last.errors))
              = <<Err("invalid_items", 0), Err("no_items", 0)>>
        /\ last.quotation_data.quote_items = <<>>
        /\ ~last.wrote

C3_Witness ==
    /\ MismatchCase
    /\ Len(last.form.quantity) = MaxRows
    /\ Len(last.form.rate) = MaxRows - 1
    /\ last.errors = <<Err("invalid_items", 0), Err("no_items", 0)>>

\* C5: a persisted quotation has at least one item and only items with
\* strictly positive quantity, rate and amount
C5_PersistedItemsPositive ==
    (Submitted /\ last.success) =>
        /\ last.quotation_data.quote_items # <<>>
        /\ \A k \in DOMAIN last.quotation_data.quote_items :
              /\ last.quotation_data.quote_items[k].quantity > 0
              /\ last.quotation_data.quote_items[k].rate > 0
              /\ last.quotation_data.quote_items[k].amount > 0

\* C6: no request removes a stored file or changes its content
C6_StoredFilesUnchanged ==
    [][\A p \in DOMAIN files : p \in DOMAIN files' /\ files'[p] = files[p]]_vars

----------------------------------------------------------------------------
(* Claims about search and download *)

\* sub occurs in s when letter case is ignored (an empty sub occurs in every s)
OccursIgnoringCase(sub, s) ==
    \E off \in 0..(Len(s) - Len(sub)) :
        \A j \in 1..Len(sub) : LowerChar(s[off + j]) = LowerChar(sub[j])

HasPdfSuffix(f) ==
    /\ Len(f) >= 4
    /\ f[Len(f) - 3] = "." /\ f[Len(f) - 2] = "p"
    /\ f[Len(f) - 1] = "d" /\ f[Len(f)] = "f"

Searched == last.op = "search"

\* the <<directory, file>> pairs the filters of the last search select
Selected ==
    {p \in DOMAIN files :
        /\ p[1] \in dirs
        /\ OccursIgnoringCase(last.search_rep, p[1])
        /\ HasPdfSuffix(p[2])
        /\ OccursIgnoringCase(last.search_quotation_no, p[2])}

SelectedDirs == {d \in dirs : OccursIgnoringCase(last.search_rep, d)}

Returned == {<<last.found.results[i].dir, last.found.results[i].file>> :
                i \in DOMAIN last.found.results}

\* C7: a successful search returns exactly the PDF files whose directory
\* matches the representative filter and whose name matches the number
\* filter, each once
C7_SearchExact ==
    (Searched /\ last.found.error.kind = "none") =>
        /\ Returned = Selected
        /\ Len(last.found.results) = Cardinality(Selected)

\* "AB" selects the directory Ab and not a_b, both holding PDF files
C7_Witness ==
    /\ Searched
    /\ last.found.error.kind = "none"
    /\ last.search_rep = <<"A", "B">>
    /\ last.search_quotation_no = <<"q", "-", "0">>
    /\ Cardinality(dirs) = 2
    /\ \E p \in DOMAIN files : p \notin Selected /\ HasPdfSuffix(p[2])
    /\ \E p \in DOMAIN files : p[1] \in SelectedDirs /\ ~HasPdfSuffix(p[2])
    /\ Returned # {}

\* C8: the three failures of a search are told apart, the first applicable
\* one being reported
C8_SearchErrors ==
    Searched =>
        /\ last.found.error.kind = "no_root" <=> ~rootExists
        /\ last.found.error.kind = "no_dirs" <=> (rootExists /\ SelectedDirs = {})
        /\ last.found.error.kind = "no_files"
              <=> (rootExists /\ SelectedDirs # {} /\ Selected = {})

\* a storage root without subdirectories, searched with a filter
C8_Witness ==
    /\ Searched
    /\ rootExists /\ dirs = {} /\ rootFiles # {}
    /\ last.search_rep # <<>>
    /\ last.found.error.kind = "no_dirs"

\* C9: a search for a representative's name, as submitted, returns every
\* quotation stored by a successful submission of that representative
C9_SearchFindsSubmitted ==
    (Searched /\ last.search_quotation_no = <<>>) =>
        \A p \in DOMAIN files :
            (files[p].complete /\ files[p].data.rep # <<>>
                /\ files[p].data.rep = last.search_rep)
                => p \in Returned

----------------------------------------------------------------------------
(* Claims about generate_quotation_number *)

\* C10: the generator redraws at most as many times as the output directory
\* holds files, and the number it returns names no existing <quotation_no>.pdf
C10_BoundedRedraws ==
    /\ genPc # "idle" => genCounter - 1 <= Cardinality(genDir)
    /\ genPc = "done" => (genQ \o PdfExt) \notin genDir

\* a call that redrew twice (two distinct existing files) and returned
C10_Witness ==
    /\ genPc = "done"
    /\ genCounter = 3
    /\ Cardinality(genDir) >= 2

====
